---------------------------- MODULE Spec2Model ----------------------------
(***************************************************************************)
(* Model of the aggregation engine of manager/aggregator.go:               *)
(*   - AggregationInstance (Ingest, Tidy, SendNotification),               *)
(*   - the Aggregator actor (Dispatch loop, aggregate, replaceRules),      *)
(*   - its synchronous entry points Receive, SetRules and Close.           *)
(* Channels are unbuffered: a send and its receive are one rendezvous.     *)
(* An unrecovered panic in any goroutine ends the whole process.           *)
(* The loop is followed statement by statement where other goroutines or   *)
(* the clock can be seen to move in between: per event of a batch, per     *)
(* instance of a sweep.                                                    *)
(***************************************************************************)
EXTENDS Integers, Sequences, FiniteSets, TLC

(***************************************************************************)
(* Bounds of the model.                                                    *)
(***************************************************************************)
\* Most events one instance holds: a batch that would exceed it is not handed in.
MaxEvents == 2
\* Longest batch handed to Receive.
MaxBatch == 2
\* Last reading of the wall clock (time.Now()).
MaxTime == 1

(***************************************************************************)
(* Constants of the program.                                               *)
(***************************************************************************)
aggUnsent == 0
aggSent == 1

(***************************************************************************)
(* Inputs.                                                                 *)
(***************************************************************************)
\* The goroutines calling Receive.
Producers == {"p1"}

\* The goroutines calling SetRules.
Configurers == {"p2"}

Procs == Producers \cup Configurers

\* The events callers hand in: label set and creation time.  The label sets
\* "a" and "c" collide on one fingerprint, and their events can outlive a
\* sweep together.
EventPool ==
    { [Labels |-> "a", CreatedAt |-> 1],
      [Labels |-> "b", CreatedAt |-> 0],
      [Labels |-> "c", CreatedAt |-> 2] }

\* The rule objects (pointers *AggregationRule) and their filters.
RuleIds == {"r1", "r2"}

\* AggregationRule.Filters: the label sets the rule's filters accept.
Filters(r) == IF r = "r1" THEN {"a"} ELSE {"a", "b", "c"}

\* The rule lists callers hand to SetRules.
RuleLists == { <<>>, <<"r1">>, <<"r1", "r2">>, <<"r2", "r1">> }

\* Outcomes of one SummaryReceiver.Receive call.
SinkOutcomes == {"ok", "retryable", "unretryable"}

\* The sequences over S of length n at most.
RECURSIVE SeqsUpTo(_, _)
SeqsUpTo(S, n) ==
    IF n = 0 THEN { <<>> }
    ELSE LET shorter == SeqsUpTo(S, n - 1)
         IN  shorter \cup { Append(s, x) : s \in { t \in shorter : Len(t) = n - 1 }, x \in S }

\* The values of req.Events.
Batches == SeqsUpTo(EventPool, MaxBatch)

(***************************************************************************)
(* Pure functions.                                                         *)
(***************************************************************************)
\* Event.Fingerprint: a hash of the identity attributes, not injective.
Fingerprint(e) == IF e.Labels = "b" THEN 2 ELSE 1

\* The keys the table can get.
FPs == { Fingerprint(e) : e \in EventPool }

\* AggregationRule.Handles: the rule's filters accept the event.
Handles(r, e) == e.Labels \in Filters(r)

\* Absent key of the map Aggregates.  The id of an instance stands for its
\* address: the how-manieth instance allocated for its key.
NoInstance == [id |-> 0, Rule |-> "none", Events |-> <<>>, state |-> aggUnsent]

\* &AggregationInstance{Rule: r}
NewInstance(id, r) == [id |-> id, Rule |-> r, Events |-> <<>>, state |-> aggUnsent]

\* Ingest that puts the event in front.
IngestFront(inst, e) == [inst EXCEPT !.Events = << e >> \o @]

\* Ingest on a copy of the instance: the append is lost.
IngestDrops(inst, e) == inst

\* AggregationInstance.Ingest
Ingest(inst, e) == [inst EXCEPT !.Events = Append(@, e)]

\* The loop of Tidy keeping the events not created before t.
RetainedNotBefore(events, t) == SelectSeq(events, LAMBDA e : t <= e.CreatedAt)

\* The loop of Tidy: the events the sweep keeps at time t.
Retained(events, t) == SelectSeq(events, LAMBDA e : t < e.CreatedAt)

\* Tidy that puts an instance with events left back to unsent.
TidyRearms(inst, t) ==
    IF Len(inst.Events) = 0 THEN inst
    ELSE LET events == Retained(inst.Events, t)
         IN  [inst EXCEPT !.state = IF Len(events) = 0 THEN aggSent ELSE aggUnsent,
                          !.Events = events]

\* Tidy that forgets to mark an emptied instance sent.
TidyKeepsState(inst, t) ==
    IF Len(inst.Events) = 0 THEN inst
    ELSE [inst EXCEPT !.Events = Retained(inst.Events, t)]

\* AggregationInstance.Tidy run when time.Now() reads t.
Tidy(inst, t) ==
    IF Len(inst.Events) = 0 THEN inst
    ELSE LET events == Retained(inst.Events, t)
         IN  [inst EXCEPT !.state = IF Len(events) = 0 THEN aggSent ELSE @,
                          !.Events = events]

\* SendNotification without its test of the state.
SendsAlways(inst) == TRUE

\* Does SendNotification reach s.Receive?
Sends(inst) == inst.state # aggSent

\* SendNotification that falls through to "r.state = aggSent" on every error.
SendNotificationNoReturn(inst, o) ==
    IF ~Sends(inst) THEN inst
    ELSE [inst EXCEPT !.state = aggSent]

\* SendNotification that returns on every error, retryable or not.
SendNotificationAnyError(inst, o) ==
    IF ~Sends(inst) THEN inst
    ELSE IF o # "ok" THEN inst
    ELSE [inst EXCEPT !.state = aggSent]

\* AggregationInstance.SendNotification, the sink answering o.
SendNotification(inst, o) ==
    IF ~Sends(inst) THEN inst
    ELSE IF o = "retryable" THEN inst
    ELSE [inst EXCEPT !.state = aggSent]

(***************************************************************************)
(* State.                                                                  *)
(***************************************************************************)
VARIABLES
    Rules,       \* Aggregator.Rules
    Aggregates,  \* Aggregator.Aggregates: fingerprint -> instance or NoInstance
    now,         \* the wall clock
    cpc,         \* where each caller stands inside Receive / SetRules
    ret,         \* the value the loop's latest iteration returned to a caller
    dpc,         \* where the Dispatch loop stands
    cur,         \* the caller whose request aggregate is working on
    pending,     \* the events of req.Events aggregate has still to visit
    todo,        \* the instances the running sweep has still to tidy
    closePc,     \* where the goroutine calling Close stands
    fault,       \* the runtime panic that ended the process, if any
    pass,        \* latest pass of the running aggregate: its event, the summaries sent
    sinkCount,   \* per fingerprint: sink calls answered ok, and answered unretryable
    shut         \* per caller: how its call stands with respect to Close

vars == << Rules, Aggregates, now, cpc, ret, dpc, cur, pending, todo,
           closePc, fault, pass, sinkCount, shut >>

\* The latest iteration of the loop served no call.
NoRet == [to |-> "none", value |-> "none"]

loopVars == << dpc, cur, pending, todo >>
sinkVars == << pass, sinkCount >>

\* The call of caller p returns.  A call that was in flight when Close began
\* is from then on a call Close has seen served.
Returned(p) == IF shut[p] = "inflight" THEN [shut EXCEPT ![p] = "served"] ELSE shut

\* Caller p starts a call: after Close began, a late one.
Started(p) == IF closePc # "idle" THEN [shut EXCEPT ![p] = "late"] ELSE shut

\* No pass of aggregate yet in the running request, or no request running.
NoEvent == [Labels |-> "none", CreatedAt |-> 0]
NoPass == [element |-> NoEvent, sent |-> <<>>]

\* The answers of the sink after which SendNotification marks the instance sent.
FinalOutcomes == {"ok", "unretryable"}

\* The process runs: no goroutine has panicked.
Running == fault = "none"

\* close(a.rulesRequests) has run.
RulesClosed == closePc # "idle"

\* close(a.aggRequests) has run.
AggClosed == closePc = "bothClosed"

\* The part of the state one pass of aggregate works on.
World(e) == [Aggregates |-> Aggregates,
             pass |-> [element |-> e, sent |-> <<>>], sinkCount |-> sinkCount]

\* NewAggregator: no rules, empty table, open channels.
Init ==
    /\ Rules = <<>>
    /\ Aggregates = [fp \in FPs |-> NoInstance]
    /\ now = 0
    /\ cpc = [p \in Procs |-> "idle"]
    /\ ret = NoRet
    /\ dpc = "select"
    /\ cur = "none"
    /\ pending = <<>>
    /\ todo = {}
    /\ closePc = "idle"
    /\ fault = "none"
    /\ pass = NoPass
    /\ sinkCount = [fp \in FPs |-> [o \in FinalOutcomes |-> 0]]
    /\ shut = [p \in Procs |-> "none"]

(***************************************************************************)
(* aggregate, one event of the batch.                                      *)
(***************************************************************************)
\* A summary of the latest event alone.
SummaryLatest(fp, inst, o) ==
    [fp |-> fp, Rule |-> inst.Rule, Events |-> << inst.Events[Len(inst.Events)] >>,
     outcome |-> o]

\* The summary SendNotification hands to the sink, with the sink's answer.
Summary(fp, inst, o) ==
    [fp |-> fp, Rule |-> inst.Rule, Events |-> inst.Events, outcome |-> o]

\* A lookup that never finds the key.
LookupMiss(aggs, fp) == FALSE

\* "aggregation, ok := a.Aggregates[fp]": is the key there?
Lookup(aggs, fp) == aggs[fp] # NoInstance

\* The body that hands an instance found in the table over to the claiming rule.
ClaimRepoints(w, r, e, o) ==
    LET fp == Fingerprint(e)
        ok == Lookup(w.Aggregates, fp)
        aggregation == IF ok THEN [w.Aggregates[fp] EXCEPT !.Rule = r]
                       ELSE NewInstance(w.Aggregates[fp].id + 1, r)
        ingested == Ingest(aggregation, e)
    IN  [Aggregates |-> [w.Aggregates EXCEPT ![fp] = SendNotification(ingested, o)],
         pass |-> IF Sends(ingested)
                  THEN [w.pass EXCEPT !.sent = Append(@, Summary(fp, ingested, o))]
                  ELSE w.pass,
         sinkCount |-> IF Sends(ingested) /\ o \in FinalOutcomes
                       THEN [w.sinkCount EXCEPT ![fp][o] = @ + 1]
                       ELSE w.sinkCount]

\* Body of "if r.Handles(element)": look up or create, Ingest, SendNotification.
Claim(w, r, e, o) ==
    LET fp == Fingerprint(e)
        ok == Lookup(w.Aggregates, fp)
        aggregation == IF ok THEN w.Aggregates[fp] ELSE NewInstance(w.Aggregates[fp].id + 1, r)
        ingested == Ingest(aggregation, e)
    IN  [Aggregates |-> [w.Aggregates EXCEPT ![fp] = SendNotification(ingested, o)],
         pass |-> IF Sends(ingested)
                  THEN [w.pass EXCEPT !.sent = Append(@, Summary(fp, ingested, o))]
                  ELSE w.pass,
         sinkCount |-> IF Sends(ingested) /\ o \in FinalOutcomes
                       THEN [w.sinkCount EXCEPT ![fp][o] = @ + 1]
                       ELSE w.sinkCount]

\* The scan of the rules without its break.
RECURSIVE ScanRulesNoBreak(_, _, _, _, _)
ScanRulesNoBreak(w, rules, e, o, i) ==
    IF i > Len(rules) THEN w
    ELSE IF Handles(rules[i], e)
         THEN ScanRulesNoBreak(Claim(w, rules[i], e, o), rules, e, o, i + 1)
    ELSE ScanRulesNoBreak(w, rules, e, o, i + 1)

\* The scan that lets the last rule claim what no rule handles.
RECURSIVE ScanRulesCatchAll(_, _, _, _, _)
ScanRulesCatchAll(w, rules, e, o, i) ==
    IF i > Len(rules) THEN (IF Len(rules) > 0 THEN Claim(w, rules[Len(rules)], e, o) ELSE w)
    ELSE IF Handles(rules[i], e) THEN Claim(w, rules[i], e, o)
    ELSE ScanRulesCatchAll(w, rules, e, o, i + 1)

\* "for _, r := range a.Rules": the first rule that handles e claims it, then break.
RECURSIVE ScanRules(_, _, _, _, _)
ScanRules(w, rules, e, o, i) ==
    IF i > Len(rules) THEN w
    ELSE IF Handles(rules[i], e) THEN Claim(w, rules[i], e, o)
    ELSE ScanRules(w, rules, e, o, i + 1)

\* aggregate without its test of the rule list.
NoRulesNever(rules) == FALSE

\* The test that opens aggregate.
NoRules(rules) == Len(rules) = 0

\* Events of batch b that carry fingerprint fp.
OfFingerprint(b, fp) == SelectSeq(b, LAMBDA e : Fingerprint(e) = fp)

\* The batches handed in keep every instance within MaxEvents.
Fits(b) ==
    \A fp \in FPs : Len(Aggregates[fp].Events) + Len(OfFingerprint(b, fp)) <= MaxEvents

(***************************************************************************)
(* Callers.                                                                *)
(***************************************************************************)
\* Receive up to "a.aggRequests <- req": the caller blocks offering its request.
Receive(p) ==
    /\ Running
    /\ cpc[p] = "idle"
    /\ cpc' = [cpc EXCEPT ![p] = "sendAgg"]
    /\ shut' = Started(p)
    /\ UNCHANGED << Rules, Aggregates, now, ret, loopVars, closePc, fault, sinkVars >>

\* SetRules up to "a.rulesRequests <- req".
SetRules(p) ==
    /\ Running
    /\ cpc[p] = "idle"
    /\ cpc' = [cpc EXCEPT ![p] = "sendRules"]
    /\ shut' = Started(p)
    /\ UNCHANGED << Rules, Aggregates, now, ret, loopVars, closePc, fault, sinkVars >>

\* A send on a closed channel panics, also when the sender was already blocked.
SendOnClosed(p) ==
    /\ Running
    /\ \/ cpc[p] = "sendAgg" /\ AggClosed
       \/ cpc[p] = "sendRules" /\ RulesClosed
    /\ fault' = "send on closed channel"
    /\ UNCHANGED << Rules, Aggregates, now, cpc, ret, loopVars, closePc, sinkVars, shut >>

(***************************************************************************)
(* The Dispatch loop.                                                      *)
(***************************************************************************)
\* case req := <-a.aggRequests with req.Events = e, then aggregate up to its
\* loop.  The caller's request is a local of the caller until this rendezvous,
\* so its content is drawn here.
DispatchAggregate(p, e) ==
    /\ Running
    /\ dpc = "select"
    /\ ~AggClosed
    /\ cpc[p] = "sendAgg"
    /\ Fits(e)
    /\ IF NoRules(Rules)
       THEN /\ ret' = [to |-> p, value |-> "Receive: err"]
            /\ cpc' = [cpc EXCEPT ![p] = "idle"]
            /\ shut' = Returned(p)
            /\ UNCHANGED << dpc, cur, pending >>
       ELSE /\ cpc' = [cpc EXCEPT ![p] = "wait"]
            /\ dpc' = "aggregate"
            /\ cur' = p
            /\ pending' = e
            /\ ret' = NoRet
            /\ UNCHANGED shut
    /\ UNCHANGED << Rules, Aggregates, now, todo, closePc, fault, sinkVars >>

\* One pass of "for _, element := range req.Events"; the sink answers o.
aggregateEvent(o) ==
    /\ Running
    /\ dpc = "aggregate"
    /\ pending # <<>>
    /\ LET w == ScanRules(World(Head(pending)), Rules, Head(pending), o, 1)
       IN  /\ Aggregates' = w.Aggregates
           /\ pass' = w.pass
           /\ sinkCount' = w.sinkCount
    /\ pending' = Tail(pending)
    /\ UNCHANGED << Rules, now, cpc, ret, dpc, cur, todo, closePc, fault, shut >>

\* aggregate that answers with the failure of its last sink call.
aggregateRespondSinkErr ==
    /\ Running
    /\ dpc = "aggregate"
    /\ pending = <<>>
    /\ ret' = [to |-> cur,
               value |-> IF pass.sent # <<>> /\ pass.sent[1].outcome # "ok"
                         THEN "Receive: err" ELSE "Receive: nil"]
    /\ cpc' = [cpc EXCEPT ![cur] = "idle"]
    /\ shut' = Returned(cur)
    /\ dpc' = "select"
    /\ cur' = "none"
    /\ pass' = NoPass
    /\ UNCHANGED << Rules, Aggregates, now, pending, todo, closePc, fault, sinkCount >>

\* aggregate that returns without sending on req.Response.
aggregateRespondSilent ==
    /\ Running
    /\ dpc = "aggregate"
    /\ pending = <<>>
    /\ ret' = NoRet
    /\ dpc' = "select"
    /\ cur' = "none"
    /\ pass' = NoPass
    /\ UNCHANGED << Rules, Aggregates, now, cpc, pending, todo, closePc, fault,
                    sinkCount, shut >>

\* "req.Response <- new(aggregateEventsResponse)" and the caller's return.
aggregateRespond ==
    /\ Running
    /\ dpc = "aggregate"
    /\ pending = <<>>
    /\ ret' = [to |-> cur, value |-> "Receive: nil"]
    /\ cpc' = [cpc EXCEPT ![cur] = "idle"]
    /\ shut' = Returned(cur)
    /\ dpc' = "select"
    /\ cur' = "none"
    /\ pass' = NoPass
    /\ UNCHANGED << Rules, Aggregates, now, pending, todo, closePc, fault, sinkCount >>

\* replaceRules that starts the table afresh under the new rules.
replaceRulesResets(p, r) ==
    /\ Running
    /\ dpc = "select"
    /\ ~RulesClosed
    /\ cpc[p] = "sendRules"
    /\ Rules' = r
    /\ Aggregates' = [fp \in FPs |-> NoInstance]
    /\ ret' = [to |-> p, value |-> "SetRules: nil"]
    /\ cpc' = [cpc EXCEPT ![p] = "idle"]
    /\ shut' = Returned(p)
    /\ UNCHANGED << now, loopVars, closePc, fault, sinkVars >>

\* Rules replaced as soon as the caller offers them, whatever the loop is doing.
replaceRulesAnytime(p, r) ==
    /\ Running
    /\ ~RulesClosed
    /\ cpc[p] = "sendRules"
    /\ Rules' = r
    /\ ret' = [to |-> p, value |-> "SetRules: nil"]
    /\ cpc' = [cpc EXCEPT ![p] = "idle"]
    /\ shut' = Returned(p)
    /\ UNCHANGED << Aggregates, now, loopVars, closePc, fault, sinkVars >>

\* case rules := <-a.rulesRequests with rules.Rules = r, replaceRules and the
\* caller's return.
replaceRules(p, r) ==
    /\ Running
    /\ dpc = "select"
    /\ ~RulesClosed
    /\ cpc[p] = "sendRules"
    /\ Rules' = r
    /\ ret' = [to |-> p, value |-> "SetRules: nil"]
    /\ cpc' = [cpc EXCEPT ![p] = "idle"]
    /\ shut' = Returned(p)
    /\ UNCHANGED << Aggregates, now, loopVars, closePc, fault, sinkVars >>

\* case <-t.C: the sweep starts over the instances now in the table.
Tick ==
    /\ Running
    /\ dpc = "select"
    /\ \E fp \in FPs : Aggregates[fp] # NoInstance
    /\ dpc' = "tidy"
    /\ todo' = { fp \in FPs : Aggregates[fp] # NoInstance }
    /\ ret' = NoRet
    /\ UNCHANGED << Rules, Aggregates, now, cpc, cur, pending, closePc, fault,
                    sinkVars, shut >>

\* One pass of "for _, a := range a.Aggregates": a.Tidy() on one instance.
TidyOne(fp) ==
    /\ Running
    /\ dpc = "tidy"
    /\ fp \in todo
    /\ Aggregates' = [Aggregates EXCEPT ![fp] = Tidy(@, now)]
    /\ todo' = todo \ {fp}
    /\ dpc' = IF todo' = {} THEN "select" ELSE "tidy"
    /\ UNCHANGED << Rules, now, cpc, ret, cur, pending, closePc, fault,
                    sinkVars, shut >>

\* A receive on a closed intake channel yields nil, which aggregate and
\* replaceRules dereference: the loop panics.
DispatchClosed ==
    /\ Running
    /\ dpc = "select"
    /\ RulesClosed \/ AggClosed
    /\ fault' = "nil request"
    /\ UNCHANGED << Rules, Aggregates, now, cpc, ret, loopVars, closePc, sinkVars, shut >>

(***************************************************************************)
(* Close and the clock.                                                    *)
(***************************************************************************)
\* close(a.rulesRequests)
CloseRules ==
    /\ Running
    /\ closePc = "idle"
    /\ closePc' = "rulesClosed"
    /\ shut' = [p \in Procs |-> IF cpc[p] # "idle" THEN "inflight" ELSE "none"]
    /\ UNCHANGED << Rules, Aggregates, now, cpc, ret, loopVars, fault, sinkVars >>

\* close(a.aggRequests), then Close waits on a.closed.
CloseAgg ==
    /\ Running
    /\ closePc = "rulesClosed"
    /\ closePc' = "bothClosed"
    /\ UNCHANGED << Rules, Aggregates, now, cpc, ret, loopVars, fault, sinkVars, shut >>

\* Time passes.
AdvanceClock ==
    /\ Running
    /\ now < MaxTime
    /\ now' = now + 1
    /\ UNCHANGED << Rules, Aggregates, cpc, ret, loopVars, closePc, fault, sinkVars,
                    shut >>

\* Callers, the loop and the clock, Close not being called.
Next ==
    \/ \E p \in Producers : Receive(p)
    \/ \E p \in Configurers : SetRules(p)
    \/ \E p \in Procs, e \in Batches : DispatchAggregate(p, e)
    \/ \E o \in SinkOutcomes : aggregateEvent(o)
    \/ aggregateRespond
    \/ \E p \in Procs, r \in RuleLists : replaceRules(p, r)
    \/ Tick
    \/ \E fp \in FPs : TidyOne(fp)
    \/ AdvanceClock

Spec == Init /\ [][Next]_vars

\* The same with one goroutine calling Close.
NextClose ==
    \/ Next
    \/ CloseRules
    \/ CloseAgg
    \/ DispatchClosed
    \/ \E p \in Procs : SendOnClosed(p)

SpecClose == Init /\ [][NextClose]_vars

\* Any goroutine may call Receive, so that batches compete for the loop; the
\* clock stands still.
NextConcurrent ==
    \/ \E p \in Procs : Receive(p)
    \/ \E p \in Configurers : SetRules(p)
    \/ \E p \in Procs, e \in Batches : DispatchAggregate(p, e)
    \/ \E o \in SinkOutcomes : aggregateEvent(o)
    \/ aggregateRespond
    \/ \E p \in Procs, r \in RuleLists : replaceRules(p, r)
    \/ Tick
    \/ \E fp \in FPs : TidyOne(fp)

SpecConcurrent == Init /\ [][NextConcurrent]_vars

\* The goroutine of Dispatch keeps running and every sink call returns: the
\* loop goes on with the batch or the sweep it is in.  The select picks among
\* its ready cases uniformly at random, so a case that is ready again and
\* again, as the receive from a caller blocked in its send is, is picked in
\* the end.
LoopFairness ==
    /\ WF_vars(\E o \in SinkOutcomes : aggregateEvent(o))
    /\ WF_vars(aggregateRespond)
    /\ WF_vars(\E fp \in FPs : TidyOne(fp))
    /\ \A p \in Procs :
          /\ SF_vars(\E e \in Batches : DispatchAggregate(p, e))
          /\ SF_vars(\E r \in RuleLists : replaceRules(p, r))

SpecLive == SpecConcurrent /\ LoopFairness

(***************************************************************************)
(* Vocabulary of the properties.                                           *)
(***************************************************************************)
\* The fingerprint has an instance in the table.
Present(fp) == Aggregates[fp] # NoInstance

\* This step is the loop accepting the Receive request of caller p.
AcceptsReceive(p) == dpc = "select" /\ cpc[p] = "sendAgg" /\ cpc'[p] # "sendAgg"

\* This step is the loop accepting the SetRules request of caller p.
AcceptsSetRules(p) == dpc = "select" /\ cpc[p] = "sendRules" /\ cpc'[p] # "sendRules"

\* This step is aggregate visiting the next event of its batch.
PassStep == dpc = "aggregate" /\ pending # <<>> /\ pending' = Tail(pending)

\* This step is the sweep tidying the instance of fp.
TidyStep(fp) == dpc = "tidy" /\ fp \in todo /\ fp \notin todo'

\* s is t with some elements left out, the others in their order.
RECURSIVE IsSubseq(_, _)
IsSubseq(s, t) ==
    IF s = <<>> THEN TRUE
    ELSE IF t = <<>> THEN FALSE
    ELSE IF Head(s) = Head(t) THEN IsSubseq(Tail(s), Tail(t))
    ELSE IsSubseq(s, Tail(t))

\* Some rule of the list handles the event.
Matches(rules, e) == \E i \in DOMAIN rules : Handles(rules[i], e)

\* The rule of lowest index that handles the event.
LowestRule(rules, e) ==
    rules[CHOOSE i \in DOMAIN rules :
              /\ Handles(rules[i], e)
              /\ \A j \in DOMAIN rules : Handles(rules[j], e) => i <= j]

\* The step hands no summary of fp to the sink.
NoSinkCallFor(fp) ==
    /\ sinkCount'[fp] = sinkCount[fp]
    /\ PassStep => \A i \in DOMAIN pass'.sent : pass'.sent[i].fp # fp

\* Every sink call so far was answered with a retryable error.
AllRetryable == \A fp \in FPs, o \in FinalOutcomes : sinkCount[fp][o] = 0

TypeOK ==
    /\ Rules \in RuleLists
    /\ \A fp \in FPs :
          /\ Aggregates[fp].id \in {0, 1}
          /\ Aggregates[fp].Rule \in RuleIds \cup {"none"}
          /\ Aggregates[fp].state \in {aggUnsent, aggSent}
          /\ Len(Aggregates[fp].Events) <= MaxEvents
    /\ now \in 0 .. MaxTime
    /\ cpc \in [Procs -> {"idle", "sendAgg", "sendRules", "wait"}]
    /\ ret.to \in Procs \cup {"none"}
    /\ ret.value \in {"none", "Receive: nil", "Receive: err", "SetRules: nil"}
    /\ dpc \in {"select", "aggregate", "tidy"}
    /\ cur \in Procs \cup {"none"}
    /\ todo \subseteq FPs
    /\ shut \in [Procs -> {"none", "inflight", "served", "late"}]

(***************************************************************************)
(* C1.  When the loop accepts a Receive request while the rule list is     *)
(* empty, the caller gets the error "No aggregation rules", and the step   *)
(* changes neither the table (keys, events, rule and state of every        *)
(* instance) nor calls the sink.                                           *)
(***************************************************************************)
C1_EmptyRulesRejects ==
    [][\A p \in Procs :
          AcceptsReceive(p) /\ Rules = <<>> =>
              /\ ret' = [to |-> p, value |-> "Receive: err"]
              /\ cpc'[p] = "idle"
              /\ Aggregates' = Aggregates
              /\ pass' = pass
              /\ sinkCount' = sinkCount]_vars

\* A caller was turned away with the error while the table held an unsent instance.
C1_Witness ==
    \E p \in Procs, fp \in FPs :
        /\ ret = [to |-> p, value |-> "Receive: err"]
        /\ Rules = <<>>
        /\ Present(fp)
        /\ Aggregates[fp].state = aggUnsent
        /\ Aggregates[fp].Events # <<>>

(***************************************************************************)
(* C2.  Receive returns a non-nil error exactly when the rule list is      *)
(* empty at the moment the loop accepts the request: with an empty list it *)
(* returns the error in that step; with a non-empty list the caller waits, *)
(* and the wait ends with nil whatever the sink answered and whether or    *)
(* not an event matched.                                                   *)
(***************************************************************************)
C2_ErrorIffNoRules ==
    [][/\ \A p \in Procs :
             /\ AcceptsReceive(p) =>
                   IF Rules = <<>>
                   THEN ret' = [to |-> p, value |-> "Receive: err"] /\ cpc'[p] = "idle"
                   ELSE ret' = NoRet /\ cpc'[p] = "wait"
             /\ cpc[p] = "wait" /\ cpc'[p] # "wait" =>
                   ret' = [to |-> p, value |-> "Receive: nil"] /\ cpc'[p] = "idle"
       /\ ret'.value = "Receive: err" /\ ret' # ret =>
             AcceptsReceive(ret'.to) /\ Rules = <<>>
       /\ ret'.value = "Receive: nil" /\ ret' # ret =>
             cpc[ret'.to] = "wait" /\ Rules # <<>>]_vars

\* Receive just returned nil from a batch that took a fingerprint's first
\* event, the sink having refused the summary for good.
C2_Witness ==
    \E fp \in FPs :
        /\ ret.value = "Receive: nil"
        /\ dpc = "select"
        /\ Len(Aggregates[fp].Events) = 1
        /\ Aggregates[fp].state = aggSent
        /\ sinkCount[fp]["unretryable"] = 1
        /\ sinkCount[fp]["ok"] = 0
        /\ \A other \in FPs \ {fp} : ~Present(other)

(***************************************************************************)
(* C3.  An event handled by at least one rule of the list is claimed by    *)
(* the first such rule only: the pass appends it once to the instance of   *)
(* its fingerprint and touches no other instance, hands the sink at most   *)
(* one summary, and an instance created by the pass carries the rule of    *)
(* lowest index that handles the event.                                    *)
(***************************************************************************)
C3_FirstRuleClaims ==
    [][PassStep /\ Matches(Rules, Head(pending)) =>
          LET e == Head(pending)
              fp == Fingerprint(e)
          IN  /\ Aggregates'[fp].Events = Append(Aggregates[fp].Events, e)
              /\ \A other \in FPs \ {fp} : Aggregates'[other] = Aggregates[other]
              /\ Len(pass'.sent) <= 1
              /\ ~Present(fp) =>
                    /\ Aggregates'[fp].Rule = LowestRule(Rules, e)
                    /\ Aggregates'[fp].id = 1]_vars

\* A pass just created an instance for an event that both rules of the list
\* handle, the second in the list being the one a scan from the end would pick.
C3_Witness ==
    \E fp \in FPs :
        /\ dpc = "aggregate"
        /\ Len(Rules) = 2
        /\ Handles(Rules[1], pass.element)
        /\ Handles(Rules[2], pass.element)
        /\ Fingerprint(pass.element) = fp
        /\ Aggregates[fp].Events = << pass.element >>
        /\ Aggregates[fp].Rule = Rules[1]
        /\ Len(pass.sent) = 1

(***************************************************************************)
(* C4.  The dispatch state of an instance only steps Unsent -> Sent: no    *)
(* step takes an instance from Sent back to Unsent, and an instance is     *)
(* created Unsent (it shows Sent after its first pass only if the sink was *)
(* called in that pass and did not answer with a retryable error).         *)
(***************************************************************************)
C4_SentNeverReverts ==
    [][\A fp \in FPs :
          /\ Aggregates[fp].state = aggSent => Aggregates'[fp].state = aggSent
          /\ ~Present(fp) /\ Aggregates'[fp].state = aggSent =>
                /\ Len(pass'.sent) = 1
                /\ pass'.sent[1].fp = fp
                /\ pass'.sent[1].outcome \in FinalOutcomes]_vars

\* A sweep just went over an instance notified with success and left it an
\* event: the instance is still sent.
C4_Witness ==
    \E fp \in FPs :
        /\ dpc = "tidy"
        /\ fp \notin todo
        /\ Aggregates[fp].state = aggSent
        /\ Aggregates[fp].Events # <<>>
        /\ sinkCount[fp]["ok"] = 1

(***************************************************************************)
(* C5.  Once an instance is Sent, no step hands a summary of it to the     *)
(* sink, however many events of its fingerprint are ingested; the sink     *)
(* answers ok at most once per fingerprint over the whole execution.       *)
(***************************************************************************)
C5_SentNeverSendsAgain ==
    /\ [](\A fp \in FPs : sinkCount[fp]["ok"] <= 1)
    /\ [][\A fp \in FPs : Aggregates[fp].state = aggSent => NoSinkCallFor(fp)]_vars

\* A pass just added a second event to an instance notified with success, and
\* called no sink.
C5_Witness ==
    \E fp \in FPs :
        /\ dpc = "aggregate"
        /\ sinkCount[fp]["ok"] = 1
        /\ Aggregates[fp].state = aggSent
        /\ Fingerprint(pass.element) = fp
        /\ Len(Aggregates[fp].Events) = 2
        /\ Aggregates[fp].Events[2] = pass.element
        /\ pass.sent = <<>>

(***************************************************************************)
(* C6, as claimed.  While the sink has answered every call with a          *)
(* retryable error, every instance is Unsent.                              *)
(***************************************************************************)
C6_Original ==
    AllRetryable => \A fp \in FPs : Present(fp) => Aggregates[fp].state = aggUnsent

(***************************************************************************)
(* C6, amended.  While the sink has answered every call with a retryable   *)
(* error, an instance is created Unsent and leaves Unsent only in a sweep  *)
(* that empties its event sequence; and every pass over an event that      *)
(* matches a rule and whose instance is absent or Unsent hands the sink    *)
(* one summary carrying the instance's rule and all events the instance    *)
(* retains, in arrival order, the new event last, and leaves it Unsent.    *)
(***************************************************************************)
C6_RetryableStaysEligible ==
    [][AllRetryable' =>
          /\ \A fp \in FPs :
                /\ ~Present(fp) => Aggregates'[fp].state = aggUnsent
                /\ Present(fp) /\ Aggregates[fp].state = aggUnsent
                       /\ Aggregates'[fp].state = aggSent =>
                      TidyStep(fp) /\ Aggregates'[fp].Events = <<>>
          /\ PassStep /\ Matches(Rules, Head(pending))
                /\ Aggregates[Fingerprint(Head(pending))].state = aggUnsent =>
                LET e == Head(pending)
                    fp == Fingerprint(e)
                IN  /\ Len(pass'.sent) = 1
                    /\ pass'.sent[1].fp = fp
                    /\ pass'.sent[1].Rule = Aggregates'[fp].Rule
                    /\ pass'.sent[1].Events = Append(Aggregates[fp].Events, e)
                    /\ pass'.sent[1].outcome = "retryable"
                    /\ Aggregates'[fp].state = aggUnsent]_vars

\* The second event of a fingerprint was just sent along with the first, the
\* sink having answered every call with a retryable error.
C6_Witness ==
    /\ AllRetryable
    /\ dpc = "aggregate"
    /\ Len(pass.sent) = 1
    /\ Len(pass.sent[1].Events) = 2
    /\ pass.sent[1].outcome = "retryable"
    /\ Aggregates[pass.sent[1].fp].state = aggUnsent

(***************************************************************************)
(* C7.  When the sink answers a summary of an Unsent instance with a       *)
(* non-retryable error, the instance is Sent at the end of that pass; from *)
(* then on no step hands a summary of that fingerprint to the sink.        *)
(***************************************************************************)
C7_UnretryableDrops ==
    [][\A fp \in FPs :
          /\ PassStep =>
                \A i \in DOMAIN pass'.sent :
                    pass'.sent[i].fp = fp /\ pass'.sent[i].outcome = "unretryable" =>
                        Aggregates'[fp].state = aggSent
          /\ sinkCount[fp]["unretryable"] > 0 =>
                NoSinkCallFor(fp) /\ Aggregates[fp].state = aggSent]_vars

\* After the sink refused its summary for good, the instance took one more
\* event in a pass that called no sink; it was never notified with success.
C7_Witness ==
    \E fp \in FPs :
        /\ dpc = "aggregate"
        /\ sinkCount[fp]["unretryable"] = 1
        /\ sinkCount[fp]["ok"] = 0
        /\ Aggregates[fp].state = aggSent
        /\ Fingerprint(pass.element) = fp
        /\ Len(Aggregates[fp].Events) = 2
        /\ pass.sent = <<>>

(***************************************************************************)
(* C8.  A Tidy that leaves an instance without events leaves it Sent,      *)
(* whatever its state was.                                                 *)
(***************************************************************************)
C8_EmptiedIsSent ==
    [][\A fp \in FPs :
          TidyStep(fp) /\ Aggregates'[fp].Events = <<>> =>
              Aggregates'[fp].state = aggSent]_vars

\* A sweep emptied an instance that no sink call had marked sent.
C8_Witness ==
    \E fp \in FPs :
        /\ Present(fp)
        /\ Aggregates[fp].Events = <<>>
        /\ Aggregates[fp].state = aggSent
        /\ sinkCount[fp]["ok"] = 0
        /\ sinkCount[fp]["unretryable"] = 0

(***************************************************************************)
(* C9.  The table holds one instance per fingerprint and the instance is   *)
(* stable: no step removes a key or puts another instance under it, and a  *)
(* pass over an event that matches a rule appends the event to the         *)
(* instance already under its fingerprint.                                 *)
(***************************************************************************)
C9_OneStableInstance ==
    [][\A fp \in FPs :
          Present(fp) =>
              /\ Present(fp)'
              /\ Aggregates'[fp].id = Aggregates[fp].id
              /\ PassStep /\ Matches(Rules, Head(pending))
                     /\ Fingerprint(Head(pending)) = fp =>
                    Aggregates'[fp].Events =
                        Append(Aggregates[fp].Events, Head(pending))]_vars

\* An instance took a later event with a different label set and the same
\* fingerprint, while the other fingerprint has its instance too.
C9_Witness ==
    \E fp \in FPs :
        /\ Aggregates[fp].id = 1
        /\ Len(Aggregates[fp].Events) = 2
        /\ Aggregates[fp].Events[1].Labels # Aggregates[fp].Events[2].Labels
        /\ \A other \in FPs \ {fp} : Aggregates[other].id = 1

(***************************************************************************)
(* C10.  The step that serves SetRules changes only the rule list: the     *)
(* table is as before, every instance keeps the rule it was created with,  *)
(* also when the new list lacks that rule, and the sink is not called.     *)
(***************************************************************************)
C10_SetRulesOnlyRules ==
    [][\A p \in Procs :
          AcceptsSetRules(p) =>
              /\ Aggregates' = Aggregates
              /\ pass' = pass
              /\ sinkCount' = sinkCount
              /\ ret' = [to |-> p, value |-> "SetRules: nil"]]_vars

\* An instance carries a rule the list in force no longer has.
C10_Witness ==
    \E fp \in FPs :
        /\ Present(fp)
        /\ Rules # <<>>
        /\ \A i \in DOMAIN Rules : Rules[i] # Aggregates[fp].Rule
        /\ ret.value = "SetRules: nil"
        /\ dpc = "select"

(***************************************************************************)
(* C11.  When Close runs while no Receive or SetRules call overlaps it,    *)
(* the loop takes the closure of its two channels for what it is, not for  *)
(* a request to process, and no goroutine panics.                          *)
(***************************************************************************)
C11_CloseWithoutFault ==
    (\A p \in Procs : shut[p] = "none") => fault = "none"

(***************************************************************************)
(* C12.  A call in flight when Close begins, the caller still offering its *)
(* request included, is served: while such a call has not returned, and no *)
(* caller started a call after Close began, no goroutine panics.           *)
(***************************************************************************)
C12_DrainsInFlight ==
    ( /\ \E p \in Procs : shut[p] = "inflight"
      /\ \A p \in Procs : shut[p] # "late" )
    => fault = "none"

(***************************************************************************)
(* C13.  The loop works on one message at a time.  From the step that      *)
(* accepts a batch to the step that answers it, the rule list stays the    *)
(* one the batch was accepted under, no other caller's request is          *)
(* accepted, and the table changes only by the next event of this batch    *)
(* being appended to the instance of its fingerprint: no sweep, no rule    *)
(* replacement and no event of another batch takes effect in between.      *)
(***************************************************************************)
C13_OneMessageAtATime ==
    [][/\ \A p \in Procs : AcceptsReceive(p) => Rules' = Rules
       /\ cur # "none" =>
             /\ Rules' = Rules
             /\ cur' \in {cur, "none"}
             /\ \A p \in Procs \ {cur} :
                   cpc[p] \in {"sendAgg", "sendRules"} => cpc'[p] = cpc[p]
             /\ pending' # pending => PassStep
             /\ Aggregates' # Aggregates =>
                   /\ PassStep
                   /\ \A fp \in FPs :
                         Aggregates'[fp] # Aggregates[fp] =>
                             /\ fp = Fingerprint(Head(pending))
                             /\ Aggregates'[fp].Events =
                                    Append(Aggregates[fp].Events, Head(pending))]_vars

\* Half-way through a batch, the table changed by its first event, while
\* another caller is blocked offering a batch of its own.
C13_Witness ==
    /\ cur # "none"
    /\ Len(pending) = 1
    /\ pass.element # NoEvent
    /\ Present(Fingerprint(pass.element))
    /\ \E q \in Procs \ {cur} : cpc[q] = "sendAgg"

(***************************************************************************)
(* C14.  While the loop runs, Close is not called and every sink call      *)
(* returns, every call of Receive and of SetRules returns in the end,      *)
(* whatever other callers and sweeps compete for the loop.                 *)
(***************************************************************************)
C14_CallsReturn ==
    \A p \in Procs : (cpc[p] # "idle") ~> (cpc[p] = "idle")

\* A call has returned to its caller while the other caller was blocked
\* offering a request and a sweep had run before.
C14_Witness ==
    /\ ret.to \in Procs
    /\ cpc[ret.to] = "idle"
    /\ \E q \in Procs \ {ret.to} : cpc[q] \in {"sendAgg", "sendRules"}
    /\ \E fp \in FPs : Present(fp) /\ Aggregates[fp].Events = <<>>

(***************************************************************************)
(* C15.  A pass of aggregate over an event that no rule of the non-empty   *)
(* list in force handles leaves the table as it is and does not call the   *)
(* sink.  A key enters the table only in a pass over an event of that      *)
(* fingerprint which some rule in force handles, the key being absent.     *)
(***************************************************************************)
C15_UnmatchedChangesNothing ==
    [][/\ PassStep /\ Rules # <<>> /\ ~Matches(Rules, Head(pending)) =>
             /\ Aggregates' = Aggregates
             /\ sinkCount' = sinkCount
             /\ pass'.sent = <<>>
       /\ \A fp \in FPs :
             ~Present(fp) /\ Present(fp)' =>
                 /\ PassStep
                 /\ Matches(Rules, Head(pending))
                 /\ Fingerprint(Head(pending)) = fp]_vars

\* A pass has just gone over an event no rule in force handles, the table
\* holding another key but not the key of that event.
C15_Witness ==
    /\ dpc = "aggregate"
    /\ pass.element # NoEvent
    /\ Rules # <<>>
    /\ ~Matches(Rules, pass.element)
    /\ ~Present(Fingerprint(pass.element))
    /\ \E fp \in FPs : Present(fp)

(***************************************************************************)
(* C16.  Every summary handed to the sink is that of the instance of the   *)
(* event just visited: it carries the rule the instance holds and all the  *)
(* events the instance holds, the event just ingested being the last.  If  *)
(* the event created the instance, the summary is the first rule in force  *)
(* that handles the event, with that event alone.                          *)
(***************************************************************************)
C16_SummaryIsInstance ==
    [][PassStep =>
          \A i \in DOMAIN pass'.sent :
              LET s == pass'.sent[i]
                  e == Head(pending)
                  fp == Fingerprint(e)
              IN  /\ s.fp = fp
                  /\ s.Rule = Aggregates'[fp].Rule
                  /\ s.Events = Aggregates'[fp].Events
                  /\ s.Events = Append(Aggregates[fp].Events, e)
                  /\ Present(fp) => s.Rule = Aggregates[fp].Rule
                  /\ ~Present(fp) =>
                        /\ s.Rule = LowestRule(Rules, e)
                        /\ s.Events = << e >>]_vars

\* The sink got a summary of two different events, sent by an instance whose
\* rule is not the first of the list in force.
C16_Witness ==
    /\ Len(pass.sent) = 1
    /\ Len(pass.sent[1].Events) = 2
    /\ pass.sent[1].Events[1] # pass.sent[1].Events[2]
    /\ pass.sent[1].Events[2] = pass.element
    /\ Rules # <<>>
    /\ pass.sent[1].Rule # Rules[1]

(***************************************************************************)
(* C17.  The events of an instance change in two ways only.  A pass of     *)
(* aggregate over an event of its fingerprint appends that event at the    *)
(* end, a repeat of an event already held included; a sweep leaves some    *)
(* events out and keeps the others in their order.  Step by step, the      *)
(* events of an instance are therefore the events ingested for its         *)
(* fingerprint, in the order of processing, with some left out.            *)
(***************************************************************************)
C17_AppendOrDelete ==
    [][\A fp \in FPs :
          LET old == Aggregates[fp].Events
              new == Aggregates'[fp].Events
          IN  /\ PassStep /\ Matches(Rules, Head(pending))
                    /\ Fingerprint(Head(pending)) = fp =>
                        new = Append(old, Head(pending))
              /\ new # old =>
                    \/ /\ PassStep
                       /\ Fingerprint(Head(pending)) = fp
                       /\ new = Append(old, Head(pending))
                    \/ /\ TidyStep(fp)
                       /\ IsSubseq(new, old)]_vars

\* A sweep has left in their order two different events of an instance, and
\* the instance it turns to next holds the same event twice.
C17_Witness ==
    \E fp \in FPs :
        /\ Len(Aggregates[fp].Events) = 2
        /\ Aggregates[fp].Events[1].Labels # Aggregates[fp].Events[2].Labels
        /\ dpc = "tidy"
        /\ fp \notin todo
        /\ \E other \in todo :
              /\ Len(Aggregates[other].Events) = 2
              /\ Aggregates[other].Events[1] = Aggregates[other].Events[2]

(***************************************************************************)
(* C18.  A sweep step on an instance, the clock reading t, leaves exactly  *)
(* the events created strictly after t, in their order, and the rule of    *)
(* the instance; it changes the state only when it leaves no event, and it *)
(* touches no other instance.                                              *)
(***************************************************************************)
C18_SweepKeepsLater ==
    [][\A fp \in FPs :
          TidyStep(fp) =>
              LET old == Aggregates[fp]
                  new == Aggregates'[fp]
              IN  /\ IsSubseq(new.Events, old.Events)
                  /\ \A i \in DOMAIN new.Events : new.Events[i].CreatedAt > now
                  /\ Len(new.Events) =
                        Cardinality({ i \in DOMAIN old.Events : old.Events[i].CreatedAt > now })
                  /\ new.Rule = old.Rule
                  /\ new.id = old.id
                  /\ new.state # old.state => new.Events = <<>>
                  /\ \A other \in FPs \ {fp} : Aggregates'[other] = Aggregates[other]]_vars

\* An unsent instance created by rule r1, hence by an event labelled "a" made
\* at time 1, holds after a sweep at time 1 only an event made at time 2.
C18_Witness ==
    \E fp \in FPs :
        /\ Aggregates[fp].Rule = "r1"
        /\ Aggregates[fp].state = aggUnsent
        /\ Len(Aggregates[fp].Events) = 1
        /\ Aggregates[fp].Events[1].CreatedAt = 2
        /\ now = 1

(***************************************************************************)
(* C19.  Whenever the loop is between two messages, and also between the   *)
(* passes of a batch or of a sweep, every instance of the table that holds *)
(* no event is in the Sent state.                                          *)
(***************************************************************************)
C19_EmptyImpliesSent ==
    \A fp \in FPs :
        Present(fp) /\ Aggregates[fp].Events = <<>> => Aggregates[fp].state = aggSent

\* Between two messages, an instance that was notified with success holds no
\* event any more, and another instance holds events and is still unsent.
C19_Witness ==
    /\ dpc = "select"
    /\ \E fp \in FPs :
          /\ Present(fp)
          /\ Aggregates[fp].Events = <<>>
          /\ sinkCount[fp]["ok"] = 1
          /\ \E other \in FPs \ {fp} :
                /\ Aggregates[other].Events # <<>>
                /\ Aggregates[other].state = aggUnsent

(***************************************************************************)
(* C20, as the specification has it.  The rule of every summary handed to  *)
(* the sink is a rule of the list in force at that pass, and it is the     *)
(* first rule of that list that handles the event of the pass.             *)
(***************************************************************************)
C20_Original ==
    [][PassStep =>
          \A i \in DOMAIN pass'.sent :
              /\ \E j \in DOMAIN Rules : Rules[j] = pass'.sent[i].Rule
              /\ pass'.sent[i].Rule = LowestRule(Rules, Head(pending))]_vars

(***************************************************************************)
(* C20, amended.  The rule of every summary handed to the sink is the rule *)
(* the instance got when it was created and keeps ever after.  When the    *)
(* event of the pass creates the instance, that is the first rule of the   *)
(* list in force that handles the event; when the instance was there       *)
(* before, it is the rule the instance held before the pass, whatever the  *)
(* list in force and whichever rule claims the event.                      *)
(***************************************************************************)
C20_RuleOfCreation ==
    [][/\ PassStep =>
             \A i \in DOMAIN pass'.sent :
                 LET s == pass'.sent[i]
                 IN  /\ Present(s.fp) => s.Rule = Aggregates[s.fp].Rule
                     /\ ~Present(s.fp) =>
                           /\ s.Rule = LowestRule(Rules, Head(pending))
                           /\ \E j \in DOMAIN Rules : Rules[j] = s.Rule
       /\ \A fp \in FPs :
             Present(fp) => Aggregates'[fp].Rule = Aggregates[fp].Rule]_vars

\* The sink got a summary whose rule the list in force does not have.
C20_Witness ==
    /\ Rules # <<>>
    /\ pass.sent # <<>>
    /\ \A j \in DOMAIN Rules : Rules[j] # pass.sent[1].Rule

=============================================================================
